---- MODULE Spec2Model ----
(***************************************************************************)
(* Employees API (FastAPI + MongoDB), src/main.py.                         *)
(*                                                                         *)
(* The collection is a sequence of documents in natural (insertion) order. *)
(* Every `await` on the store is one atomic step of the store; a handler   *)
(* with several awaits (create, update) is a sequence of steps that other  *)
(* requests may interleave with.                                           *)
(*                                                                         *)
(* Representation:                                                         *)
(*   - Python None / a missing Optional value is <<>>, a present value v   *)
(*     is <<v>> (request bodies), and the document None is NoDoc;          *)
(*   - a date is <<y, m, d>>, a datetime is <<y, m, d, h, mi, s>>;          *)
(*   - a skill is a sequence of one-character strings, so that the         *)
(*     anchored case-insensitive regular expression can be evaluated.      *)
(***************************************************************************)
EXTENDS Integers, Sequences, FiniteSets, TLC

VARIABLES
    started,     \* startup_actions has run
    validator,   \* the $jsonSchema validator is attached to the collection
    store,       \* the employees collection
    nextId,      \* number of _id values handed out so far
    pc,          \* per client: where its request is suspended
    req,         \* per client: the request being (or last) handled
    loc,         \* per client: handler locals (inserted_id, ...)
    resp,        \* per client: the response to its last finished request
    seen,        \* per client: what the handler's last store call met: for a create
                 \* "present" / "absent" (the employee_id at find_one or insert_one),
                 \* "inserted", "rejected" (by the validator); for an update
                 \* "matched", "absent", "rejected"; otherwise "none"
    live,        \* per employee_id: body of the latest create, not touched since
    gone,        \* per employee_id: deleted and not created again
    nreq,        \* requests received so far
    clock,       \* current time, in minutes
    tokens,      \* tokens issued by /token
    executed     \* the last /employees request reached its handler

vars == <<started, validator, store, nextId, pc, req, loc, resp, seen, live, gone,
          nreq, clock, tokens, executed>>

----------------------------------------------------------------------------
(* Bounds *)

MaxRequests == 3     \* requests received in one run
MaxDocs == 3         \* documents in a collection the queries are applied to
MaxTokens == 1       \* tokens issued in one run

(* Program constants *)

ACCESS_TOKEN_EXPIRE_MINUTES == 60
NoDoc == [none |-> TRUE]
NoResp == [status |-> 0]

Clients == {"c1", "c2"}

----------------------------------------------------------------------------
(* Data mapper *)

MinTime == <<0, 0, 0>>

Combine(d, t) == d \o t

IsDateTime(jd) == Len(jd) = 6

DateOf(dt) == SubSeq(dt, 1, 3)

Pad(n, width) ==
    LET s == ToString(n)
    IN  IF width = 4 /\ n < 10 THEN "000" \o s
        ELSE IF width = 4 /\ n < 100 THEN "00" \o s
        ELSE IF width = 4 /\ n < 1000 THEN "0" \o s
        ELSE IF width = 2 /\ n < 10 THEN "0" \o s
        ELSE s

IsoFormat(d) == Pad(d[1], 4) \o "-" \o Pad(d[2], 2) \o "-" \o Pad(d[3], 2)

\* employee_helper(None) raises AttributeError: callers test for NoDoc first.
employee_helper(emp_doc) ==
    [id          |-> ToString(emp_doc._id),
     employee_id |-> emp_doc.employee_id,
     name        |-> emp_doc.name,
     department  |-> emp_doc.department,
     salary      |-> emp_doc.salary,
     joining_date |-> IF IsDateTime(emp_doc.joining_date)
                        THEN IsoFormat(DateOf(emp_doc.joining_date))
                        ELSE IsoFormat(emp_doc.joining_date),
     skills      |-> emp_doc.skills]

\* payload.dict() of an EmployeeCreate with joining_date combined with midnight
CreateDoc(payload) ==
    [employee_id |-> payload.employee_id,
     name        |-> payload.name,
     department  |-> payload.department,
     salary      |-> payload.salary,
     joining_date |-> Combine(payload.joining_date, MinTime),
     skills      |-> payload.skills]

PatchFields == {"name", "department", "salary", "joining_date", "skills"}

\* update_data: the non-None fields of the body, joining_date combined with midnight
UpdateData(payload) ==
    [k \in {f \in PatchFields : payload[f] # <<>>} |->
        IF k = "joining_date" THEN Combine(payload[k][1], MinTime) ELSE payload[k][1]]

----------------------------------------------------------------------------
(* The document store *)

\* $jsonSchema of startup_actions: salary has minimum 0. The other properties
\* (required fields, string/date/array types) hold of every document the handlers
\* build, and every salary of this model fits bsonType "int" (32 bits).
SchemaValid(doc) == doc.salary >= 0

Positions(s, id) == {i \in 1..Len(s) : s[i].employee_id = id}

FirstPos(s, id) == CHOOSE i \in Positions(s, id) : \A j \in Positions(s, id) : i <= j

\* collection.find_one({"employee_id": id})
FindOne(s, id) == IF Positions(s, id) = {} THEN NoDoc ELSE s[FirstPos(s, id)]

\* collection.find_one({"_id": oid})
FindById(s, oid) ==
    IF \E i \in 1..Len(s) : s[i]._id = oid
    THEN s[CHOOSE i \in 1..Len(s) : s[i]._id = oid]
    ELSE NoDoc

\* insert_one adds the generated _id to the document
WithId(doc, oid) == [k \in DOMAIN doc \cup {"_id"} |-> IF k = "_id" THEN oid ELSE doc[k]]

InsertOneNoIndex(s, doc, oid, v) ==
    IF v /\ ~SchemaValid(doc)
    THEN [ok |-> FALSE, store |-> s]
    ELSE [ok |-> TRUE, store |-> Append(s, WithId(doc, oid))]

\* collection.insert_one(doc) under the unique index on employee_id and, when
\* attached, the validator: a rejected insert raises and changes nothing.
InsertOne(s, doc, oid, v) ==
    IF (v /\ ~SchemaValid(doc)) \/ Positions(s, doc.employee_id) # {}
    THEN [ok |-> FALSE, store |-> s]
    ELSE [ok |-> TRUE, store |-> Append(s, WithId(doc, oid))]

SetFields(doc, update_data) ==
    [k \in DOMAIN doc |-> IF k \in DOMAIN update_data THEN update_data[k] ELSE doc[k]]

UpdateOneReplace(s, id, update_data, v) ==
    IF Positions(s, id) = {} THEN [ok |-> TRUE, matched |-> 0, store |-> s]
    ELSE LET i == FirstPos(s, id)
             new == [k \in DOMAIN s[i] |->
                        IF k \in DOMAIN update_data THEN update_data[k]
                        ELSE IF k \in {"_id", "employee_id"} THEN s[i][k]
                        ELSE IF k = "salary" THEN 0
                        ELSE IF k = "joining_date" THEN <<1970, 1, 1, 0, 0, 0>>
                        ELSE IF k = "skills" THEN <<>>
                        ELSE ""]
         IN  [ok |-> TRUE, matched |-> 1, store |-> [s EXCEPT ![i] = new]]

\* collection.update_one({"employee_id": id}, {"$set": update_data}), validation
\* level "moderate": the result is validated when the matched document was valid.
UpdateOne(s, id, update_data, v) ==
    IF Positions(s, id) = {} THEN [ok |-> TRUE, matched |-> 0, store |-> s]
    ELSE LET i == FirstPos(s, id)
             new == SetFields(s[i], update_data)
         IN  IF v /\ SchemaValid(s[i]) /\ ~SchemaValid(new)
             THEN [ok |-> FALSE, matched |-> 0, store |-> s]
             ELSE [ok |-> TRUE, matched |-> 1, store |-> [s EXCEPT ![i] = new]]

Without(s, i) == [j \in 1..(Len(s) - 1) |-> IF j < i THEN s[j] ELSE s[j + 1]]

DeleteOneKeep(s, id) ==
    IF Positions(s, id) = {} THEN [deleted |-> 0, store |-> s]
    ELSE [deleted |-> 1, store |-> s]

\* collection.delete_one({"employee_id": id})
DeleteOne(s, id) ==
    IF Positions(s, id) = {} THEN [deleted |-> 0, store |-> s]
    ELSE [deleted |-> 1, store |-> Without(s, FirstPos(s, id))]

----------------------------------------------------------------------------
(* Query builder *)

Min(a, b) == IF a < b THEN a ELSE b

\* cursor.skip(skip).limit(limit) over the documents in the cursor's order
SkipLimit(docs, skip, limit) == SubSeq(docs, skip + 1, Min(Len(docs), skip + limit))

\* datetime ordering
Before(a, b) == \E i \in 1..6 : a[i] < b[i] /\ \A j \in 1..(i - 1) : a[j] = b[j]

\* sort("joining_date", -1): every order of docs with no later date after an
\* earlier one; the order among equal dates is the store's choice
SortedDesc(docs) ==
    LET n == Len(docs)
        perms == {f \in [1..n -> 1..n] : \A i, j \in 1..n : i # j => f[i] # f[j]}
    IN  { [i \in 1..n |-> docs[f[i]]] :
            f \in {g \in perms : \A i, j \in 1..n :
                      i < j => ~Before(docs[g[i]].joining_date, docs[g[j]].joining_date)} }

\* Python truthiness of Optional[str]: None and "" are both falsy
Truthy(department) == department # <<>> /\ department[1] # ""

\* list_employees: the possible response bodies
ListResults(s, department, skip, limit) ==
    LET keep(doc) == IF Truthy(department) THEN doc.department = department[1] ELSE TRUE
        found == SelectSeq(s, keep)
    IN  { [i \in 1..Len(SkipLimit(sorted, skip, limit)) |->
              employee_helper(SkipLimit(sorted, skip, limit)[i])] :
            sorted \in SortedDesc(found) }

\* re.escape: a backslash before every character that is special in a regular
\* expression (of this model's characters: "+" and the newline)
SpecialChars == {"+", "\n"}

RECURSIVE ReEscape(_)
ReEscape(str) ==
    IF str = <<>> THEN <<>>
    ELSE (IF Head(str) \in SpecialChars THEN <<"\\", Head(str)>> ELSE <<Head(str)>>)
         \o ReEscape(Tail(str))

\* f"^{re.escape(skill)}$"
SkillPattern(skill) == <<"^">> \o ReEscape(skill) \o <<"$">>

Fold(ch) ==
    IF ch = "P" THEN "p" ELSE IF ch = "Y" THEN "y" ELSE IF ch = "C" THEN "c" ELSE ch

\* The store's regular expressions (PCRE) for the patterns SkillPattern builds:
\* "^", then literals (a backslash makes the next character a literal), then "$".
\* RegexAt(p, i, str, j): the pattern from its i-th element matches str from
\* its j-th character. "$" holds at the end of str, and also just before a
\* newline that is str's last character (PCRE without DOLLAR_ENDONLY).
RECURSIVE RegexAt(_, _, _, _, _)
RegexAt(p, i, str, j, caseless) ==
    IF i > Len(p) THEN TRUE
    ELSE IF p[i] = "^" THEN j = 1 /\ RegexAt(p, i + 1, str, j, caseless)
    ELSE IF p[i] = "$"
         THEN /\ \/ j = Len(str) + 1
                 \/ j = Len(str) /\ str[j] = "\n"
              /\ RegexAt(p, i + 1, str, j, caseless)
    ELSE LET lit == IF p[i] = "\\" THEN p[i + 1] ELSE p[i]
             nxt == IF p[i] = "\\" THEN i + 2 ELSE i + 1
         IN  /\ j <= Len(str)
             /\ IF caseless THEN Fold(str[j]) = Fold(lit) ELSE str[j] = lit
             /\ RegexAt(p, nxt, str, j + 1, caseless)

\* {"$regex": pattern, "$options": "i"} against one string
RegexMatch(pattern, str) == RegexAt(pattern, 1, str, 1, TRUE)

\* {"skills": {"$elemMatch": {"$regex": ..., "$options": "i"}}}
SkillQuery(doc, skill) ==
    \E k \in 1..Len(doc.skills) : RegexMatch(SkillPattern(skill), doc.skills[k])

\* search_employees_by_skill: the response
SearchResponse(s, skill, skip, limit) ==
    LET keep(doc) == SkillQuery(doc, skill)
        found == SkipLimit(SelectSeq(s, keep), skip, limit)
        docs == [i \in 1..Len(found) |-> employee_helper(found[i])]
    IN  IF docs = <<>> THEN [status |-> 404, detail |-> "Employee not found"]
        ELSE [status |-> 200, docs |-> docs]

\* $round to 0 places: halves go to the even neighbour
RoundHalfEven(sum, n) ==
    LET q == sum \div n
        r == sum % n
    IN  IF 2 * r < n THEN q
        ELSE IF 2 * r > n THEN q + 1
        ELSE IF q % 2 = 0 THEN q ELSE q + 1

RECURSIVE SumSalary(_)
SumSalary(docs) == IF docs = <<>> THEN 0 ELSE Head(docs).salary + SumSalary(Tail(docs))

\* avg_salary_by_department: the response (the groups as a set: their order is
\* not defined)
AvgResponse(s) ==
    LET depts == {s[i].department : i \in 1..Len(s)}
        group(d) == LET keep(doc) == doc.department = d IN SelectSeq(s, keep)
        result == { [department |-> d,
                     avg_salary |-> RoundHalfEven(SumSalary(group(d)), Len(group(d)))] :
                    d \in depts }
    IN  IF result = {} THEN [status |-> 404, detail |-> "Employee not found"]
        ELSE [status |-> 200, groups |-> result]

----------------------------------------------------------------------------
(* Request inputs *)

Ids == {"E1", "E2"}

Py == <<"P", "y">>

\* name, department, salary, joining_date, skills of the create bodies
Profiles ==
    { [name |-> "Ann", department |-> "Eng", salary |-> 50000,
       joining_date |-> <<2024, 1, 15>>, skills |-> <<Py>>],
      [name |-> "Bob", department |-> "Ops", salary |-> -1,
       joining_date |-> <<2023, 12, 1>>, skills |-> <<>>],
      [name |-> "Cy", department |-> "Eng", salary |-> 0,
       joining_date |-> <<987, 6, 5>>, skills |-> <<Py, <<"C", "+">>>>] }

EmployeeCreate(id, p) ==
    [employee_id |-> id, name |-> p.name, department |-> p.department,
     salary |-> p.salary, joining_date |-> p.joining_date, skills |-> p.skills]

CreateBodies == {EmployeeCreate(id, p) : id \in Ids, p \in Profiles}

EmptyUpdate ==
    [name |-> <<>>, department |-> <<>>, salary |-> <<>>, joining_date |-> <<>>,
     skills |-> <<>>]

\* EmployeeUpdate bodies: nothing, one field, several fields (an empty skills
\* list and an empty department are values, not None), a negative salary
UpdateBodies ==
    { EmptyUpdate,
      [EmptyUpdate EXCEPT !.salary = <<60000>>],
      [EmptyUpdate EXCEPT !.name = <<"Zed">>, !.skills = << <<>> >>,
                          !.joining_date = << <<2020, 2, 29>> >>],
      [EmptyUpdate EXCEPT !.salary = <<-5>>, !.department = <<"">>] }

----------------------------------------------------------------------------
(* Startup and the handlers, one action per store round trip *)

Idle(c) == started /\ pc[c] = "idle" /\ nreq < MaxRequests

AuthVars == <<clock, tokens, executed>>

\* create_index on the (empty) collection succeeds; collMod is best effort and its
\* failure is swallowed, so the validator may or may not be attached.
startup_actions ==
    /\ ~started
    /\ started' = TRUE
    /\ \E attached \in BOOLEAN : validator' = attached
    /\ UNCHANGED <<store, nextId, pc, req, loc, resp, seen, live, gone, nreq, AuthVars>>

\* create_employee up to the await of find_one
create_employee_find(c, payload) ==
    /\ Idle(c)
    /\ nreq' = nreq + 1
    /\ req' = [req EXCEPT ![c] = [op |-> "create", payload |-> payload]]
    /\ LET existing == FindOne(store, payload.employee_id)
       IN  IF existing # NoDoc
           THEN /\ resp' = [resp EXCEPT ![c] =
                               [status |-> 400, detail |-> "employee_id already exists"]]
                /\ seen' = [seen EXCEPT ![c] = "present"]
                /\ pc' = pc
           ELSE /\ resp' = [resp EXCEPT ![c] = NoResp]
                /\ seen' = [seen EXCEPT ![c] = "absent"]
                /\ pc' = [pc EXCEPT ![c] = "create_insert"]
    /\ UNCHANGED <<started, validator, store, nextId, loc, live, gone, AuthVars>>

\* create_employee from find_one's result to the await of insert_one; an exception
\* of insert_one is not caught and ends the request with 500
create_employee_insert(c) ==
    /\ pc[c] = "create_insert"
    /\ LET payload == req[c].payload
           result == InsertOne(store, CreateDoc(payload), nextId + 1, validator)
       IN  /\ seen' = [seen EXCEPT ![c] =
                          IF Positions(store, payload.employee_id) # {} THEN "present"
                          ELSE IF result.ok THEN "inserted" ELSE "rejected"]
           /\ store' = result.store
           /\ IF result.ok
              THEN /\ nextId' = nextId + 1
                   /\ loc' = [loc EXCEPT ![c] = nextId + 1]
                   /\ pc' = [pc EXCEPT ![c] = "create_readback"]
                   /\ live' = [live EXCEPT ![payload.employee_id] = <<payload>>]
                   /\ gone' = [gone EXCEPT ![payload.employee_id] = FALSE]
                   /\ resp' = resp
              ELSE /\ resp' = [resp EXCEPT ![c] = [status |-> 500]]
                   /\ pc' = [pc EXCEPT ![c] = "idle"]
                   /\ UNCHANGED <<nextId, loc, live, gone>>
    /\ UNCHANGED <<started, validator, req, nreq, AuthVars>>

\* create_employee from insert_one's result to the response
create_employee_readback(c) ==
    /\ pc[c] = "create_readback"
    /\ LET new_doc == FindById(store, loc[c])
       IN  resp' = [resp EXCEPT ![c] =
                       IF new_doc = NoDoc THEN [status |-> 500]
                       ELSE [status |-> 201, body |-> employee_helper(new_doc)]]
    /\ pc' = [pc EXCEPT ![c] = "idle"]
    /\ UNCHANGED <<started, validator, store, nextId, req, loc, seen, live, gone, nreq,
                   AuthVars>>

\* update_employee up to the await of update_one
update_employee_write(c, employee_id, payload) ==
    /\ Idle(c)
    /\ nreq' = nreq + 1
    /\ req' = [req EXCEPT ![c] =
                 [op |-> "update", employee_id |-> employee_id, payload |-> payload]]
    /\ LET update_data == UpdateData(payload)
           result == UpdateOne(store, employee_id, update_data, validator)
       IN  IF DOMAIN update_data = {}
           THEN /\ resp' = [resp EXCEPT ![c] =
                               [status |-> 400, detail |-> "No fields provided for update"]]
                /\ seen' = [seen EXCEPT ![c] = "none"]
                /\ UNCHANGED <<store, pc, live>>
           ELSE IF ~result.ok
           THEN /\ resp' = [resp EXCEPT ![c] = [status |-> 500]]
                /\ seen' = [seen EXCEPT ![c] = "rejected"]
                /\ UNCHANGED <<store, pc, live>>
           ELSE IF result.matched = 0
           THEN /\ resp' = [resp EXCEPT ![c] =
                               [status |-> 404, detail |-> "Employee not found"]]
                /\ seen' = [seen EXCEPT ![c] = "absent"]
                /\ UNCHANGED <<store, pc, live>>
           ELSE /\ store' = result.store
                /\ resp' = [resp EXCEPT ![c] = NoResp]
                /\ seen' = [seen EXCEPT ![c] = "matched"]
                /\ pc' = [pc EXCEPT ![c] = "update_readback"]
                /\ live' = [live EXCEPT ![employee_id] = <<>>]
    /\ UNCHANGED <<started, validator, nextId, loc, gone, AuthVars>>

\* update_employee from update_one's result to the response
update_employee_readback(c) ==
    /\ pc[c] = "update_readback"
    /\ LET updated == FindOne(store, req[c].employee_id)
       IN  resp' = [resp EXCEPT ![c] =
                       IF updated = NoDoc THEN [status |-> 500]
                       ELSE [status |-> 200, body |-> employee_helper(updated)]]
    /\ pc' = [pc EXCEPT ![c] = "idle"]
    /\ UNCHANGED <<started, validator, store, nextId, req, loc, seen, live, gone, nreq,
                   AuthVars>>

get_employee(c, employee_id) ==
    /\ Idle(c)
    /\ nreq' = nreq + 1
    /\ req' = [req EXCEPT ![c] = [op |-> "get", employee_id |-> employee_id]]
    /\ LET doc == FindOne(store, employee_id)
       IN  resp' = [resp EXCEPT ![c] =
                       IF doc = NoDoc
                       THEN [status |-> 404, detail |-> "Employee not found"]
                       ELSE [status |-> 200, body |-> employee_helper(doc)]]
    /\ seen' = [seen EXCEPT ![c] = "none"]
    /\ UNCHANGED <<started, validator, store, nextId, pc, loc, live, gone, AuthVars>>

delete_employee(c, employee_id) ==
    /\ Idle(c)
    /\ nreq' = nreq + 1
    /\ req' = [req EXCEPT ![c] = [op |-> "delete", employee_id |-> employee_id]]
    /\ LET result == DeleteOne(store, employee_id)
       IN  /\ store' = result.store
           /\ IF result.deleted = 0
              THEN /\ resp' = [resp EXCEPT ![c] =
                                  [status |-> 200, success |-> FALSE,
                                   message |-> "Employee not found"]]
                   /\ UNCHANGED <<live, gone>>
              ELSE /\ resp' = [resp EXCEPT ![c] =
                                  [status |-> 200, success |-> TRUE,
                                   message |-> "Employee deleted"]]
                   /\ live' = [live EXCEPT ![employee_id] = <<>>]
                   /\ gone' = [gone EXCEPT ![employee_id] = TRUE]
    /\ seen' = [seen EXCEPT ![c] = "none"]
    /\ UNCHANGED <<started, validator, nextId, pc, loc, AuthVars>>

Init ==
    /\ started = FALSE
    /\ validator = FALSE
    /\ store = <<>>
    /\ nextId = 0
    /\ pc = [c \in Clients |-> "idle"]
    /\ req = [c \in Clients |-> [op |-> "none"]]
    /\ loc = [c \in Clients |-> 0]
    /\ resp = [c \in Clients |-> NoResp]
    /\ seen = [c \in Clients |-> "none"]
    /\ live = [e \in Ids |-> <<>>]
    /\ gone = [e \in Ids |-> FALSE]
    /\ nreq = 0
    /\ clock = 0
    /\ tokens = {}
    /\ executed = FALSE

Next ==
    \/ startup_actions
    \/ \E c \in Clients, payload \in CreateBodies : create_employee_find(c, payload)
    \/ \E c \in Clients : create_employee_insert(c)
    \/ \E c \in Clients : create_employee_readback(c)
    \/ \E c \in Clients, e \in Ids, payload \in UpdateBodies :
          update_employee_write(c, e, payload)
    \/ \E c \in Clients : update_employee_readback(c)
    \/ \E c \in Clients, e \in Ids : get_employee(c, e)
    \/ \E c \in Clients, e \in Ids : delete_employee(c, e)

Spec == Init /\ [][Next]_vars

----------------------------------------------------------------------------
(* The read-only queries applied to collections of up to MaxDocs documents *)

QueryBodies ==
    { [employee_id |-> "E1", name |-> "Ann", department |-> "Eng", salary |-> 100,
       joining_date |-> <<2024, 1, 15>>, skills |-> << <<"p", "y">>, <<"C", "+">> >>],
      [employee_id |-> "E2", name |-> "Bob", department |-> "Eng", salary |-> 201,
       joining_date |-> <<2023, 12, 1>>, skills |-> << <<"P", "y", "3">> >>],
      [employee_id |-> "E2", name |-> "Bea", department |-> "Ops", salary |-> 7,
       joining_date |-> <<2024, 1, 15>>, skills |-> << <<"P", "y", "\n">> >>],
      [employee_id |-> "E3", name |-> "Cy", department |-> "Ops", salary |-> 0,
       joining_date |-> <<2024, 2, 1>>, skills |-> << <<"C">>, <<"P", "Y">> >>],
      [employee_id |-> "E4", name |-> "Dee", department |-> "", salary |-> 50,
       joining_date |-> <<2022, 3, 9>>, skills |-> <<>>] }

\* collections create_employee can build: distinct employee_id, _id in insertion order
QueryStores ==
    UNION { { [i \in 1..n |-> WithId(CreateDoc(b[i]), i)] :
                b \in {f \in [1..n -> QueryBodies] :
                         \A i, j \in 1..n : i # j => f[i].employee_id # f[j].employee_id} } :
            n \in 0..MaxDocs }

DepartmentParams == {<<>>, <<"">>, <<"Eng">>, <<"eng">>}
SkillParams == {<<"P", "y">>, <<"C", "+">>, <<"C">>, <<"P", "y", "3">>}
Skips == {0, 1}
Limits == {1, 2}

QueryIdle(c) == started /\ pc[c] = "idle"

list_employees(c, department, skip, limit) ==
    /\ QueryIdle(c)
    /\ req' = [req EXCEPT ![c] = [op |-> "list", department |-> department,
                                  skip |-> skip, limit |-> limit]]
    /\ \E docs \in ListResults(store, department, skip, limit) :
          resp' = [resp EXCEPT ![c] = [status |-> 200, docs |-> docs]]
    /\ UNCHANGED <<started, validator, store, nextId, pc, loc, seen, live, gone, nreq,
                   AuthVars>>

search_employees_by_skill(c, skill, skip, limit) ==
    /\ QueryIdle(c)
    /\ req' = [req EXCEPT ![c] = [op |-> "search", skill |-> skill,
                                  skip |-> skip, limit |-> limit]]
    /\ resp' = [resp EXCEPT ![c] = SearchResponse(store, skill, skip, limit)]
    /\ UNCHANGED <<started, validator, store, nextId, pc, loc, seen, live, gone, nreq,
                   AuthVars>>

avg_salary_by_department(c) ==
    /\ QueryIdle(c)
    /\ req' = [req EXCEPT ![c] = [op |-> "avg"]]
    /\ resp' = [resp EXCEPT ![c] = AvgResponse(store)]
    /\ UNCHANGED <<started, validator, store, nextId, pc, loc, seen, live, gone, nreq,
                   AuthVars>>

InitQuery ==
    /\ started = TRUE
    /\ validator \in BOOLEAN
    /\ store \in QueryStores
    /\ nextId = Len(store)
    /\ pc = [c \in Clients |-> "idle"]
    /\ req = [c \in Clients |-> [op |-> "none"]]
    /\ loc = [c \in Clients |-> 0]
    /\ resp = [c \in Clients |-> NoResp]
    /\ seen = [c \in Clients |-> "none"]
    /\ live = [e \in Ids |-> <<>>]
    /\ gone = [e \in Ids |-> FALSE]
    /\ nreq = 0
    /\ clock = 0
    /\ tokens = {}
    /\ executed = FALSE

NextQuery ==
    \/ \E department \in DepartmentParams, skip \in Skips, limit \in Limits :
          list_employees("c1", department, skip, limit)
    \/ \E skill \in SkillParams, skip \in Skips, limit \in Limits :
          search_employees_by_skill("c1", skill, skip, limit)
    \/ avg_salary_by_department("c1")

SpecQuery == InitQuery /\ [][NextQuery]_vars

----------------------------------------------------------------------------
(* Auth gate *)

SECRET_KEY == "your-secret-key"

\* pwd_context.hash / pwd_context.verify (bcrypt: verify recomputes and compares)
Hash(password) == <<"bcrypt", password>>

fake_users_db == [u \in {"admin"} |-> [username |-> u, hashed_password |-> Hash("password")]]

verify_password(plain_password, hashed_password) == Hash(plain_password) = hashed_password

\* jwt.encode: the claims signed with the key
JwtEncode(claims, key) ==
    [wellformed |-> TRUE, sub |-> claims.sub, exp |-> claims.exp, key |-> key]

\* create_access_token with the default expires_delta
create_access_token(data, now) ==
    JwtEncode([sub |-> data.sub, exp |-> now + ACCESS_TOKEN_EXPIRE_MINUTES], SECRET_KEY)

JwtDecodeNoExp(token, key, now) ==
    IF ~token.wellformed \/ token.key # key
    THEN [ok |-> FALSE]
    ELSE [ok |-> TRUE, sub |-> token.sub]

\* jwt.decode (python-jose): JWTError for a malformed token, a signature made
\* with another key, or an exp claim earlier than now (exp < now; a token is
\* still accepted at the instant exp = now)
JwtDecode(token, key, now) ==
    IF ~token.wellformed \/ token.key # key \/ token.exp < now
    THEN [ok |-> FALSE]
    ELSE [ok |-> TRUE, sub |-> token.sub]

NoCred == [bearer |-> FALSE]
Bearer(token) == [bearer |-> TRUE, token |-> token]

\* oauth2_scheme + get_current_user: <<username>>, or <<>> for the 401
get_current_user(cred, now) ==
    IF ~cred.bearer THEN <<>>
    ELSE LET payload == JwtDecode(cred.token, SECRET_KEY, now)
         IN  IF ~payload.ok THEN <<>>
             ELSE IF payload.sub = <<>> THEN <<>>
             ELSE IF payload.sub[1] \notin DOMAIN fake_users_db THEN <<>>
             ELSE payload.sub

----------------------------------------------------------------------------
(* The handlers run to completion, as when no other request interleaves *)

CreateRun(s, nid, v, payload) ==
    IF FindOne(s, payload.employee_id) # NoDoc
    THEN [store |-> s, nextId |-> nid,
          resp |-> [status |-> 400, detail |-> "employee_id already exists"]]
    ELSE LET result == InsertOne(s, CreateDoc(payload), nid + 1, v)
         IN  IF ~result.ok
             THEN [store |-> s, nextId |-> nid, resp |-> [status |-> 500]]
             ELSE [store |-> result.store, nextId |-> nid + 1,
                   resp |-> [status |-> 201,
                             body |-> employee_helper(FindById(result.store, nid + 1))]]

UpdateRun(s, nid, v, employee_id, payload) ==
    LET update_data == UpdateData(payload)
        result == UpdateOne(s, employee_id, update_data, v)
    IN  IF DOMAIN update_data = {}
        THEN [store |-> s, nextId |-> nid,
              resp |-> [status |-> 400, detail |-> "No fields provided for update"]]
        ELSE IF ~result.ok
        THEN [store |-> s, nextId |-> nid, resp |-> [status |-> 500]]
        ELSE IF result.matched = 0
        THEN [store |-> s, nextId |-> nid,
              resp |-> [status |-> 404, detail |-> "Employee not found"]]
        ELSE [store |-> result.store, nextId |-> nid,
              resp |-> [status |-> 200,
                        body |-> employee_helper(FindOne(result.store, employee_id))]]

GetRun(s, nid, employee_id) ==
    [store |-> s, nextId |-> nid,
     resp |-> IF FindOne(s, employee_id) = NoDoc
              THEN [status |-> 404, detail |-> "Employee not found"]
              ELSE [status |-> 200, body |-> employee_helper(FindOne(s, employee_id))]]

DeleteRun(s, nid, employee_id) ==
    LET result == DeleteOne(s, employee_id)
    IN  [store |-> result.store, nextId |-> nid,
         resp |-> IF result.deleted = 0
                  THEN [status |-> 200, success |-> FALSE, message |-> "Employee not found"]
                  ELSE [status |-> 200, success |-> TRUE, message |-> "Employee deleted"]]

\* what a request to an /employees route may do once the dependency has passed
Outcomes(r, s, nid, v) ==
    IF r.op = "create" THEN {CreateRun(s, nid, v, r.payload)}
    ELSE IF r.op = "update" THEN {UpdateRun(s, nid, v, r.employee_id, r.payload)}
    ELSE IF r.op = "get" THEN {GetRun(s, nid, r.employee_id)}
    ELSE IF r.op = "delete" THEN {DeleteRun(s, nid, r.employee_id)}
    ELSE IF r.op = "search"
    THEN {[store |-> s, nextId |-> nid,
           resp |-> SearchResponse(s, r.skill, r.skip, r.limit)]}
    ELSE IF r.op = "avg"
    THEN {[store |-> s, nextId |-> nid, resp |-> AvgResponse(s)]}
    ELSE {[store |-> s, nextId |-> nid, resp |-> [status |-> 200, docs |-> docs]] :
            docs \in ListResults(s, r.department, r.skip, r.limit)}

----------------------------------------------------------------------------
(* Requests through the auth gate, at the instants of Times *)

Times == {0, 1, 59, 60, 61}

AuthBody == EmployeeCreate("E1", CHOOSE p \in Profiles : p.name = "Ann")

Usernames == {"admin", "mallory"}
Passwords == {"password", "letmein"}

\* what a client can present: nothing, a token /token issued, or a token it made
\* itself (it does not hold SECRET_KEY)
Creds ==
    {NoCred}
    \cup {Bearer(i.token) : i \in tokens}
    \cup {Bearer([wellformed |-> FALSE, sub |-> <<>>, exp |-> 0, key |-> ""]),
          Bearer(JwtEncode([sub |-> <<"admin">>,
                            exp |-> clock + ACCESS_TOKEN_EXPIRE_MINUTES], "guessed-key")),
          Bearer(JwtEncode([sub |-> <<"mallory">>,
                            exp |-> clock + ACCESS_TOKEN_EXPIRE_MINUTES], "guessed-key"))}

Tick ==
    /\ started
    /\ \E t \in Times :
          /\ t > clock
          /\ \A u \in Times : u > clock => t <= u
          /\ clock' = t
    /\ UNCHANGED <<started, validator, store, nextId, pc, req, loc, resp, seen, live, gone,
                   nreq, tokens, executed>>

root(c) ==
    /\ started
    /\ req' = [req EXCEPT ![c] = [op |-> "root"]]
    /\ resp' = [resp EXCEPT ![c] =
                   [status |-> 200, message |-> "FastAPI + MongoDB API is running!"]]
    /\ UNCHANGED <<started, validator, store, nextId, pc, loc, seen, live, gone, nreq,
                   clock, tokens, executed>>

login(c, username, password) ==
    /\ started
    /\ Cardinality(tokens) < MaxTokens
    /\ req' = [req EXCEPT ![c] = [op |-> "login", username |-> username]]
    /\ IF \/ username \notin DOMAIN fake_users_db
          \/ ~verify_password(password, fake_users_db[username].hashed_password)
       THEN /\ resp' = [resp EXCEPT ![c] =
                           [status |-> 401, detail |-> "Invalid credentials"]]
            /\ tokens' = tokens
       ELSE LET access_token ==
                    create_access_token([sub |-> <<fake_users_db[username].username>>], clock)
            IN  /\ resp' = [resp EXCEPT ![c] =
                               [status |-> 200, access_token |-> access_token,
                                token_type |-> "bearer"]]
                /\ tokens' = tokens \cup {[token |-> access_token, iat |-> clock]}
    /\ UNCHANGED <<started, validator, store, nextId, pc, loc, seen, live, gone, nreq,
                   clock, executed>>

\* a request to an /employees route: Depends(get_current_user), then the handler
Protected(c, cred, r) ==
    /\ started
    /\ nextId < MaxRequests
    /\ req' = [req EXCEPT ![c] = [op |-> r.op, cred |-> cred, at |-> clock]]
    /\ IF get_current_user(cred, clock) = <<>>
       THEN /\ resp' = [resp EXCEPT ![c] = [status |-> 401, detail |-> "Invalid token"]]
            /\ executed' = FALSE
            /\ UNCHANGED <<store, nextId>>
       ELSE /\ executed' = TRUE
            /\ \E o \in Outcomes(r, store, nextId, validator) :
                  /\ store' = o.store
                  /\ nextId' = o.nextId
                  /\ resp' = [resp EXCEPT ![c] = o.resp]
    /\ UNCHANGED <<started, validator, pc, loc, seen, live, gone, nreq, clock, tokens>>

auth_create_employee(c, cred) == Protected(c, cred, [op |-> "create", payload |-> AuthBody])

auth_search_employees_by_skill(c, cred) ==
    Protected(c, cred, [op |-> "search", skill |-> Py, skip |-> 0, limit |-> 1])

auth_avg_salary_by_department(c, cred) == Protected(c, cred, [op |-> "avg"])

auth_list_employees(c, cred) ==
    Protected(c, cred, [op |-> "list", department |-> <<>>, skip |-> 0, limit |-> 1])

auth_get_employee(c, cred) == Protected(c, cred, [op |-> "get", employee_id |-> "E1"])

auth_update_employee(c, cred) ==
    Protected(c, cred, [op |-> "update", employee_id |-> "E1",
                        payload |-> [EmptyUpdate EXCEPT !.salary = <<60000>>]])

auth_delete_employee(c, cred) == Protected(c, cred, [op |-> "delete", employee_id |-> "E1"])

NextAuth ==
    \/ startup_actions
    \/ Tick
    \/ root("c1")
    \/ \E username \in Usernames, password \in Passwords : login("c1", username, password)
    \/ \E cred \in Creds : auth_create_employee("c1", cred)
    \/ \E cred \in Creds : auth_search_employees_by_skill("c1", cred)
    \/ \E cred \in Creds : auth_avg_salary_by_department("c1", cred)
    \/ \E cred \in Creds : auth_list_employees("c1", cred)
    \/ \E cred \in Creds : auth_get_employee("c1", cred)
    \/ \E cred \in Creds : auth_update_employee("c1", cred)
    \/ \E cred \in Creds : auth_delete_employee("c1", cred)

SpecAuth == Init /\ [][NextAuth]_vars

----------------------------------------------------------------------------
(* Properties of the concurrent handlers (Spec) *)

Finished(c, op) == pc[c] = "idle" /\ req[c].op = op /\ resp[c] # NoResp

\* the response fields of a create body
SameAsBody(body, payload) ==
    /\ body.employee_id = payload.employee_id
    /\ body.name = payload.name
    /\ body.department = payload.department
    /\ body.salary = payload.salary
    /\ body.skills = payload.skills
    /\ body.joining_date = IsoFormat(payload.joining_date)

\* the response fields an update body supplies
CarriesUpdate(body, payload) ==
    \A f \in PatchFields :
        payload[f] # <<>> =>
            body[f] = IF f = "joining_date" THEN IsoFormat(payload[f][1]) ELSE payload[f][1]

\* C1: in every reachable state, whatever the interleaving of create, update and
\* delete requests, no two stored records have the same employee_id.
C1_UniqueEmployeeId ==
    \A i, j \in 1..Len(store) : i # j => store[i].employee_id # store[j].employee_id

\* C1 witness: a create passed its find_one, another create inserted the same
\* employee_id meanwhile, and the unique index rejected the late insert.
C1_RacedInsertRejected ==
    \E c \in Clients :
        /\ Finished(c, "create")
        /\ seen[c] = "present"
        /\ resp[c].status = 500
        /\ Cardinality(Positions(store, req[c].payload.employee_id)) = 1

\* C2: a create request that meets its employee_id already in the store (at its
\* find_one or, after a concurrent create, at its insert_one) is answered 400.
C2_DuplicateCreateIs400 ==
    \A c \in Clients :
        Finished(c, "create") /\ seen[c] = "present" => resp[c].status = 400

\* C5: every stored record has salary >= 0.
C5_SalaryNonNegative == \A i \in 1..Len(store) : store[i].salary >= 0

\* C10: an update whose update_one matched is answered 200 with the body's values in
\* the supplied fields, and a create whose insert_one succeeded is answered 201 with
\* the new record, whatever other requests do between the write and the read-back.
C10_ReadBackNeverFails ==
    \A c \in Clients :
        /\ Finished(c, "update") /\ seen[c] = "matched" =>
              resp[c].status = 200 /\ CarriesUpdate(resp[c].body, req[c].payload)
        /\ Finished(c, "create") /\ seen[c] = "inserted" =>
              /\ resp[c].status = 201
              /\ resp[c].body.employee_id = req[c].payload.employee_id
              /\ resp[c].body.id = ToString(loc[c])

\* what an update request may do to the store, as C4 states it; strict is the
\* reading in which an unknown employee_id is answered 404 whatever the body holds
UpdateFrame(c, employee_id, payload, strict) ==
    LET supplied == {f \in PatchFields : payload[f] # <<>>}
        unknown == Positions(store, employee_id) = {}
    IN  /\ Len(store') = Len(store)
        /\ \A i \in 1..Len(store) :
              IF store[i].employee_id # employee_id THEN store'[i] = store[i]
              ELSE /\ \A k \in (DOMAIN store[i]) \ supplied : store'[i][k] = store[i][k]
                   /\ store'[i] # store[i] =>
                         \A f \in supplied :
                             store'[i][f] = IF f = "joining_date"
                                            THEN payload[f][1] \o <<0, 0, 0>>
                                            ELSE payload[f][1]
        /\ supplied = {} => resp'[c].status = 400 /\ store' = store
        /\ unknown /\ (strict \/ supplied # {}) => resp'[c].status = 404 /\ store' = store

\* C4 as claimed: an update changes only the supplied non-null fields of the one
\* record with that employee_id; a body without non-null field is answered 400 and an
\* unknown employee_id is answered 404, the store unchanged in both cases.
C4_UpdateFrameAsClaimed ==
    [][\A c \in Clients, e \in Ids, payload \in UpdateBodies :
          update_employee_write(c, e, payload) => UpdateFrame(c, e, payload, TRUE)]_vars

\* C4 as amended: the same, with 404 for an unknown employee_id only when the body
\* supplies at least one non-null field (a body without any is answered 400 first).
C4_UpdateFrame ==
    [][\A c \in Clients, e \in Ids, payload \in UpdateBodies :
          update_employee_write(c, e, payload) => UpdateFrame(c, e, payload, FALSE)]_vars

\* C4 witness: an update of several fields was applied to one of two stored
\* records and answered 200.
C4_UpdateApplied ==
    \E c \in Clients :
        /\ Finished(c, "update")
        /\ seen[c] = "matched"
        /\ resp[c].status = 200
        /\ req[c].payload.name # <<>>
        /\ req[c].payload.salary = <<>>
        /\ Len(store) = 2

\* C6: a create with a valid body (salary >= 0, as the data model requires) whose
\* employee_id was not in the store when it inserted is answered 201, and a
\* get-by-id with no update or delete of that id since the create returns the
\* body's fields, joining_date as the ISO date.
C6_CreateRoundTrip ==
    [][/\ \A c \in Clients :
             (/\ Finished(c, "create")
              /\ seen[c] \in {"inserted", "rejected"}
              /\ req[c].payload.salary >= 0)' => (resp[c].status = 201)'
       /\ \A c \in Clients, e \in Ids :
             get_employee(c, e) /\ live[e] # <<>> =>
                 resp'[c].status = 200 /\ SameAsBody(resp'[c].body, live[e][1])]_vars

\* C7: delete of a stored employee_id removes exactly that record and answers
\* {success: true} with 200, and a later get-by-id (no create of the id in between)
\* answers 404; delete of an unknown employee_id answers {success: false} with 200
\* and leaves the store unchanged.
C7_Delete ==
    [][/\ \A c \in Clients, e \in Ids :
             delete_employee(c, e) =>
                 /\ resp'[c].status = 200
                 /\ IF Positions(store, e) # {}
                    THEN /\ resp'[c].success = TRUE
                         /\ Positions(store', e) = {}
                         /\ LET others(doc) == doc.employee_id # e
                            IN  store' = SelectSeq(store, others)
                    ELSE /\ resp'[c].success = FALSE
                         /\ store' = store
       /\ \A c \in Clients, e \in Ids :
             get_employee(c, e) /\ gone[e] => resp'[c].status = 404]_vars

\* C7 witness: a stored record was deleted and a get of its employee_id was then
\* answered 404.
C7_DeletedThenNotFound ==
    \E c, d \in Clients :
        /\ Finished(c, "delete") /\ resp[c].success = TRUE
        /\ Finished(d, "get") /\ resp[d].status = 404
        /\ req[d].employee_id = req[c].employee_id
        /\ gone[req[c].employee_id]

----------------------------------------------------------------------------
(* Properties of the auth gate (SpecAuth) *)

AuthRequests ==
    { [op |-> "create", payload |-> AuthBody],
      [op |-> "search", skill |-> Py, skip |-> 0, limit |-> 1],
      [op |-> "avg"],
      [op |-> "list", department |-> <<>>, skip |-> 0, limit |-> 1],
      [op |-> "get", employee_id |-> "E1"],
      [op |-> "update", employee_id |-> "E1",
       payload |-> [EmptyUpdate EXCEPT !.salary = <<60000>>]],
      [op |-> "delete", employee_id |-> "E1"] }

\* the token of cred was issued by a successful login, is signed with SECRET_KEY,
\* names a known user, and was issued at most `age` minutes ago
IssuedWithin(cred, age) ==
    /\ cred.bearer
    /\ \E i \in tokens :
          /\ i.token = cred.token
          /\ i.token.key = SECRET_KEY
          /\ i.token.sub # <<>>
          /\ i.token.sub[1] \in DOMAIN fake_users_db
          /\ clock - i.iat \in 0..age

AuthGate(age) ==
    /\ \A cred \in Creds, r \in AuthRequests :
          Protected("c1", cred, r) =>
              /\ executed' <=> IssuedWithin(cred, age)
              /\ ~IssuedWithin(cred, age) =>
                    resp'["c1"].status = 401 /\ store' = store /\ nextId' = nextId
    /\ root("c1") => resp'["c1"].status = 200

\* C3 as claimed: an /employees handler runs iff the request carries a token that
\* /token issued less than 60 minutes before; every other request is answered 401
\* with the store unchanged; GET / needs no token.
C3_AuthGateAsClaimed == [][AuthGate(ACCESS_TOKEN_EXPIRE_MINUTES - 1)]_vars

\* C3 as amended: the same with "at most 60 minutes before": the token is rejected
\* only once the clock is past its exp.
C3_AuthGate == [][AuthGate(ACCESS_TOKEN_EXPIRE_MINUTES)]_vars

\* C3 witness: a handler ran for a token used exactly 60 minutes after its issue.
C3_AcceptedAtExpiry ==
    /\ executed
    /\ req["c1"].op \in {"create", "get", "list"}
    /\ \E i \in tokens :
          /\ req["c1"].cred = Bearer(i.token)
          /\ req["c1"].at = i.iat + ACCESS_TOKEN_EXPIRE_MINUTES

----------------------------------------------------------------------------
(* Properties of the queries (SpecQuery) *)

Mapped(docs) == [i \in 1..Len(docs) |-> employee_helper(docs[i])]

\* C8: list returns, for a department parameter that is provided (any string, the
\* empty string included), only the records of exactly that department, and all
\* records when it is not provided: the slice [skip, skip+limit) of those records
\* by joining_date descending, at most limit of them, with status 200 also when
\* the slice is empty.
C8_ListFilterOrderSlice ==
    req["c1"].op = "list" =>
        LET r == req["c1"]
            wanted(doc) == r.department = <<>> \/ doc.department = r.department[1]
            docs == resp["c1"].docs
        IN  /\ resp["c1"].status = 200
            /\ Len(docs) <= r.limit
            /\ \A i \in 1..Len(docs) :
                  r.department # <<>> => docs[i].department = r.department[1]
            /\ \E sorted \in SortedDesc(SelectSeq(store, wanted)) :
                  docs = Mapped(SkipLimit(sorted, r.skip, r.limit))

\* two strings are equal over their whole length, letter case aside
SameSkill(a, b) == Len(a) = Len(b) /\ \A i \in 1..Len(a) : Fold(a[i]) = Fold(b[i])

\* C9: search returns exactly the records with a skills element equal to the query
\* skill case-insensitively over its whole length (after skip and limit, in store
\* order), at most limit of them; the answer is 404 exactly when that sequence is
\* empty and 200 otherwise.
C9_SearchExactSkill ==
    req["c1"].op = "search" =>
        LET r == req["c1"]
            wanted(doc) == \E k \in 1..Len(doc.skills) : SameSkill(doc.skills[k], r.skill)
            expected == Mapped(SkipLimit(SelectSeq(store, wanted), r.skip, r.limit))
        IN  IF expected = <<>> THEN resp["c1"].status = 404
            ELSE /\ resp["c1"].status = 200
                 /\ resp["c1"].docs = expected
                 /\ Len(resp["c1"].docs) <= r.limit

====
